---- MODULE Spec2Model ----
(***************************************************************************)
(* The connection state machine of ChatSocket (socket.ts): the transport   *)
(* handle and its listeners, the spool queue, the pending-reply map, the   *)
(* reconnect and keepalive timers, and the handlers that drive them.       *)
(*                                                                         *)
(* The whole ChatSocket instance is one record; every method of the class  *)
(* is an operator from record to record, so that a handler that calls      *)
(* another method (the close listener calling boot(), the re-auth catch    *)
(* calling close()) is the composition of the two operators.  A promise    *)
(* continuation runs in the same step as the handler that settles the      *)
(* promise: micro-tasks run before the next timer or transport event.  The *)
(* one continuation of the class that runs behind a continuation of the    *)
(* application is sendPackets after the 'authResult' of the re-auth: it is *)
(* a step of its own, and only calls of the application come before it.    *)
(*                                                                         *)
(* emit('error') throws when the application has registered no 'error'     *)
(* listener; the statements after it in the handler are then not run.      *)
(*                                                                         *)
(* emit() runs the listeners of the application inside the emitting        *)
(* method.  The application has at most one listener that calls back into  *)
(* the instance, registered with once() for one notification: it is        *)
(* removed before it runs, and its call is part of the step that emits.    *)
(* 'debug' notifications are not recorded in the log of the step, but      *)
(* their listener runs like any other.                                     *)
(*                                                                         *)
(* Environment: the `ws` transport.  A transport is connecting, open,      *)
(* closing or aborting (close() was called on it once open, or while still *)
(* connecting; its close event is still to come) or closed.  Frames are    *)
(* delivered while it is open or closing.  A write reaches the wire only   *)
(* while the transport is open, and is dropped silently otherwise (frames  *)
(* and pings alike).  The server replies only to identifiers it received   *)
(* on that transport.                                                      *)
(***************************************************************************)
EXTENDS Integers, Sequences, FiniteSets, TLC

\* Bounds of the exploration.
MaxWs == 2          \* transports created over the run
MaxReq == 3         \* requests (send/call/re-auth) issued over the run
MaxTimers == 2      \* reconnect timers pending at once
MaxProbes == 1      \* keepalive probes outstanding per transport
MaxAuthWaiters == 1 \* auth() promises waiting for 'authResult'
NumEndpoints == 3   \* longest endpoint list

Methods == {"msg", "whois"}
WsIds == 1..MaxWs
ReqIds == 1..MaxReq

\* SocketState
Idle == "Idle"
Connecting == "Connecting"
Connected == "Connected"
Closing == "Closing"
Closed == "Closed"
Reconnecting == "Reconnecting"
Refreshing == "Refreshing"
SocketState == {Idle, Connecting, Connected, Closing, Closed, Reconnecting, Refreshing}

\* No listener of the application calls back.
NoListener == [on |-> "none", calls |-> "none"]

Listener(on, calls) == [on |-> on, calls |-> calls]

\* The listeners of the application that call back: on 'ready' or on 'debug',
\* calling one of the public methods.
AppListeners ==
    {NoListener} \cup {Listener(on, calls) : on \in {"ready", "debug"},
                          calls \in {"boot", "close", "send", "call", "auth"}}

NoReq == [method |-> "", kind |-> "none", noReply |-> FALSE, status |-> "unused",
          reply |-> "none"]

VARIABLES
    state,            \* this.state
    socket,           \* this.socket: 0 is undefined, else a transport id
    wsStatus,         \* readyState of every transport created
    wsWired,          \* whether boot() attached its listeners to the transport
    wsCount,          \* number of transports created
    endpointOffset,   \* this.endpointOffset
    endpointsLength,  \* this.endpoints.length
    autoReconnect,    \* this.options.autoReconnect
    authPacket,       \* whether this.authPacket is set
    queue,            \* this.queue, in Map iteration order: <<[method, id]>>
    replies,          \* keys of this.replies
    req,              \* per request: method, kind, noReply, state of the caller's
                      \* promise, state of the reply promise while spooled
    reqCount,         \* number of requests issued
    wire,             \* per live transport: the requests written to it, in order
    welcomeListeners, \* listeners registered by this.once('WelcomeEvent')
    authWaiters,      \* listeners registered by this.once('authResult') in auth()
    sendPacketsPending, \* .then(sendPackets) continuations still to run
    appErrorListener, \* whether the application registered an 'error' listener
    appListener,      \* the application's once() listener that calls back:
                      \* [on: the notification, calls: the method it calls]
    pingArmed,        \* this.pingTimeoutHandle is a pending timer
    probes,           \* per transport: pings racing pong against pingTimeout
    reconnectLive,    \* this.reconnectTimeout is a pending timer
    leakedTimers,     \* pending reconnect timers no handle refers to any more
    emitted,          \* notifications emitted by the last step, in order
    policyLog         \* reconnectionPolicy calls made by the last step

vars == <<state, socket, wsStatus, wsWired, wsCount, endpointOffset,
          endpointsLength, autoReconnect, authPacket, queue, replies, req, reqCount,
          wire, welcomeListeners, authWaiters, sendPacketsPending, appErrorListener,
          appListener, pingArmed, probes, reconnectLive, leakedTimers, emitted, policyLog>>

\* The instance as a record, with the per-step logs cleared.
Cur ==
    [state |-> state, socket |-> socket, wsStatus |-> wsStatus, wsWired |-> wsWired,
     wsCount |-> wsCount, endpointOffset |-> endpointOffset,
     endpointsLength |-> endpointsLength,
     autoReconnect |-> autoReconnect, authPacket |-> authPacket, queue |-> queue,
     replies |-> replies, req |-> req, reqCount |-> reqCount, wire |-> wire,
     welcomeListeners |-> welcomeListeners, authWaiters |-> authWaiters,
     sendPacketsPending |-> sendPacketsPending, appErrorListener |-> appErrorListener,
     appListener |-> appListener,
     pingArmed |-> pingArmed, probes |-> probes, reconnectLive |-> reconnectLive,
     leakedTimers |-> leakedTimers, emitted |-> <<>>, policyLog |-> <<>>]

Commit(s) ==
    /\ state' = s.state
    /\ socket' = s.socket
    /\ wsStatus' = s.wsStatus
    /\ wsWired' = s.wsWired
    /\ wsCount' = s.wsCount
    /\ endpointOffset' = s.endpointOffset
    /\ endpointsLength' = s.endpointsLength
    /\ autoReconnect' = s.autoReconnect
    /\ authPacket' = s.authPacket
    /\ queue' = s.queue
    /\ replies' = s.replies
    /\ req' = s.req
    /\ reqCount' = s.reqCount
    /\ wire' = s.wire
    /\ welcomeListeners' = s.welcomeListeners
    /\ authWaiters' = s.authWaiters
    /\ sendPacketsPending' = s.sendPacketsPending
    /\ appErrorListener' = s.appErrorListener
    /\ appListener' = s.appListener
    /\ pingArmed' = s.pingArmed
    /\ probes' = s.probes
    /\ reconnectLive' = s.reconnectLive
    /\ leakedTimers' = s.leakedTimers
    /\ emitted' = s.emitted
    /\ policyLog' = s.policyLog

----------------------------------------------------------------------------
\* The application's listener for the notification, run by emit(); defined
\* below, once the methods it may call are.
RECURSIVE notify(_, _)

\* The notification enters the log of the step.
record(s, name) == [s EXCEPT !.emitted = Append(@, name)]

\* EventEmitter.emit for a notification that has no listener inside the
\* class: the application's listener runs before emit returns.
emit(s, name) == notify(record(s, name), name)

\* emit('debug', ...)
emitDebug(s) == notify(s, "debug")

\* Whether emit('error') returns: it throws when nobody listens.
errorReturns(s) == s.appErrorListener

\* setOptions(): the option the state machine reads is autoReconnect.
setOptions(s, reconnect) == [s EXCEPT !.autoReconnect = reconnect]

\* setEndpoints(): the list is replaced and the offset drawn anew; random is
\* the value of Math.floor(Math.random() * endpoints.length).
setEndpoints(s, length, random) ==
    [s EXCEPT !.endpointsLength = length, !.endpointOffset = random]

\* ws.close(): an open transport starts closing, a connecting one is aborted.
wsClose(s, t) ==
    IF s.wsStatus[t] = "open"
    THEN [s EXCEPT !.wsStatus[t] = "closing"]
    ELSE IF s.wsStatus[t] = "connecting"
    THEN [s EXCEPT !.wsStatus[t] = "aborting"]
    ELSE s

\* ws.send(): the frame reaches the wire only while the transport is open.
wsSend(s, id) ==
    IF s.socket # 0 /\ s.wsStatus[s.socket] = "open"
    THEN [s EXCEPT !.wire[s.socket] = Append(@, id)]
    ELSE s

isConnected(s) == s.state = Connected

\* A rotation that never wraps.
getAddressNoWrap(s) == [s EXCEPT !.endpointOffset = @ + 1]

\* getAddress(): the offset is advanced, wrapped, and indexes the endpoint
\* returned.
getAddress(s) ==
    [s EXCEPT !.endpointOffset =
        IF s.endpointOffset + 1 >= s.endpointsLength THEN 0 ELSE s.endpointOffset + 1]

\* boot(): the transport is created and stored before the Closing test; the
\* listeners are attached only past it.
boot(s) ==
    LET t == s.wsCount + 1
        a == getAddress(s)
        n == [a EXCEPT !.wsCount = t, !.socket = t, !.wsStatus[t] = "connecting"]
    IN  IF s.state = Closing
        THEN [n EXCEPT !.state = Refreshing]
        ELSE [n EXCEPT !.state = Connecting,
                       !.wsWired[t] = TRUE,
                       !.welcomeListeners = @ + 1]

\* The 'close' listener with the reconnect timer set but the state left alone.
closeHandlerKeepsState(s) ==
    IF s.state = Refreshing
    THEN boot([s EXCEPT !.state = Idle])
    ELSE IF s.state = Closing
    THEN [emit([s EXCEPT !.state = Closed], "closed")
            EXCEPT !.pingArmed = FALSE, !.reconnectLive = FALSE]
    ELSE IF ~s.autoReconnect
    THEN s
    ELSE LET e == emit([s EXCEPT !.policyLog = Append(@, "next")], "reconnecting")
         IN  [e EXCEPT !.leakedTimers = IF e.reconnectLive THEN @ + 1 ELSE @,
                       !.reconnectLive = TRUE]

\* The 'close' listener registered by the constructor.
closeHandler(s) ==
    IF s.state = Refreshing
    THEN boot([s EXCEPT !.state = Idle])
    ELSE IF s.state = Closing
    THEN [emit([s EXCEPT !.state = Closed], "closed")
            EXCEPT !.pingArmed = FALSE, !.reconnectLive = FALSE]
    ELSE IF ~s.autoReconnect
    THEN s
    ELSE LET e == emit([s EXCEPT !.state = Reconnecting,
                                 !.policyLog = Append(@, "next")], "reconnecting")
         IN  [e EXCEPT !.leakedTimers = IF e.reconnectLive THEN @ + 1 ELSE @,
                       !.reconnectLive = TRUE]

\* emit('close') of the instance: the listener the constructor registered
\* runs first, the application's after it.
emitClose(s) == notify(closeHandler(record(s, "close")), "close")

----------------------------------------------------------------------------
\* A queue keyed by request rather than by method name.
queueAppend(q, entry) == Append(q, entry)

\* Map.set: a key already present keeps its place in the iteration order.
queueSet(q, entry) ==
    IF \E i \in 1..Len(q) : q[i].method = entry.method
    THEN [i \in 1..Len(q) |-> IF q[i].method = entry.method THEN entry ELSE q[i]]
    ELSE Append(q, entry)

\* send() spooling every payload it cannot write, whatever its method.
sendSpoolsAuth(s, id, force) ==
    IF isConnected(s) \/ force
    THEN IF s.socket = 0
         THEN [s EXCEPT !.req[id].status = "threw"]
         ELSE emitDebug([wsSend(s, id) EXCEPT !.req[id].status = "sent"])
    ELSE emit([s EXCEPT !.queue = queueSet(@, [method |-> s.req[id].method, id |-> id]),
                        !.req[id].status = "spooled"], "spooled")

\* send(): what it does to the wire and the queue.  The promise it returns is
\* resolved ("sent") unless the payload was spooled.  With no transport yet,
\* this.socket.send throws a TypeError out of send() ("threw").
send(s, id, force) ==
    IF isConnected(s) \/ force
    THEN IF s.socket = 0
         THEN [s EXCEPT !.req[id].status = "threw"]
         ELSE emitDebug([wsSend(s, id) EXCEPT !.req[id].status = "sent"])
    ELSE IF s.req[id].method # "auth"
    THEN emit([s EXCEPT !.queue = queueSet(@, [method |-> s.req[id].method, id |-> id]),
                        !.req[id].status = "spooled"], "spooled")
    ELSE [s EXCEPT !.req[id].status = "sent"]

\* The caller's promise is settled; nothing else is remembered of the request.
settle(s, id, outcome) == [s EXCEPT !.req[id] = [NoReq EXCEPT !.status = outcome]]

\* The continuation of call() once send()'s promise has resolved: done when
\* noReply is set, else the race of the reply against the timeout starts; a
\* reply promise that is settled already wins it at once.
afterSend(s, id) ==
    IF s.req[id].kind = "send" \/ s.req[id].noReply
    THEN settle(s, id, "resolved")
    ELSE IF s.req[id].reply = "ok"
    THEN settle(s, id, "resolved")
    ELSE IF s.req[id].reply = "error"
    THEN settle(s, id, "rejected")
    ELSE [s EXCEPT !.req[id].status = "awaiting"]

\* The payload handed to send() by the user.
rawSend(s, method, force) ==
    LET id == s.reqCount + 1
        n == [s EXCEPT !.reqCount = id,
                       !.req[id] = [method |-> method, kind |-> "send",
                                    noReply |-> FALSE, status |-> "new",
                                    reply |-> "none"]]
        d == send(n, id, force)
    IN  IF d.req[id].status = "sent" THEN afterSend(d, id) ELSE d

\* call(): the reply entry is registered before the request is handed to send().
call(s, method, kind, noReply, force) ==
    LET id == s.reqCount + 1
        n == [s EXCEPT !.reqCount = id,
                       !.replies = @ \cup {id},
                       !.req[id] = [method |-> method, kind |-> kind,
                                    noReply |-> noReply, status |-> "new",
                                    reply |-> "none"]]
        d == send(n, id, force)
    IN  IF d.req[id].status = "sent" THEN afterSend(d, id) ELSE d

\* close()
close(s) ==
    IF s.socket # 0
    THEN [wsClose(s, s.socket) EXCEPT !.state = Closing]
    ELSE [s EXCEPT !.reconnectLive = FALSE, !.pingArmed = FALSE, !.state = Closed]

\* Map.delete
queueDelete(q, method) == SelectSeq(q, LAMBDA e : e.method # method)

\* sendPackets: queue.forEach in iteration order, each entry sent with force,
\* resolved and deleted under its key; an entry set while the loop runs is
\* visited too.  Then state = Connected and 'connected'.
RECURSIVE flush(_)
flush(s) ==
    IF s.queue = <<>> THEN s
    ELSE LET h == Head(s.queue)
             w == send(s, h.id, TRUE)
         IN  IF w.req[h.id].status # "sent" THEN w
             ELSE flush([afterSend(w, h.id) EXCEPT !.queue = queueDelete(@, h.method)])

sendPackets(s) ==
    LET f == flush(s)
    IN  IF f.queue # <<>> THEN f
        ELSE emit([f EXCEPT !.state = Connected], "connected")

\* emit('authResult') that leaves the promises of auth() pending.
emitAuthResultKeepsWaiters(s) == emit(s, "authResult")

\* emit('authResult'): the listeners auth() registered with once() are resolved.
emitAuthResult(s) == emit([s EXCEPT !.authWaiters = 0], "authResult")

\* The re-auth chain of unSpool once the call has succeeded: 'authResult',
\* then sendPackets; a promise of auth() resolved by 'authResult' has its
\* continuation run before sendPackets.
authSucceeded(s) ==
    LET e == emitAuthResult(s)
    IN  IF s.authWaiters > 0
        THEN [e EXCEPT !.sendPacketsPending = @ + 1]
        ELSE sendPackets(e)

\* The catch of the re-auth chain in unSpool.
authFailed(s) ==
    LET e == emit(s, "error:AuthenticationFailedError")
    IN  IF errorReturns(e) THEN close(e) ELSE e

unSpool(s) ==
    IF s.authPacket
    THEN call(s, "auth", "reauth", FALSE, TRUE)
    ELSE sendPackets(s)

resetPingTimeout(s) == [s EXCEPT !.pingArmed = TRUE]

\* One listener registered by this.once('WelcomeEvent') in boot().
welcomeListener(s) ==
    LET r == [s EXCEPT !.policyLog = Append(@, "reset")]
        e == IF r.state = Reconnecting THEN emit(r, "reconnected") ELSE r
    IN  unSpool(emit(resetPingTimeout([e EXCEPT !.state = Connected]), "ready"))

\* emit('WelcomeEvent'): every registered once-listener runs and is removed.
RECURSIVE runWelcome(_, _)
runWelcome(s, k) ==
    IF k = 0 THEN s ELSE runWelcome(welcomeListener(s), k - 1)

\* The listeners of the class were registered before any of the application.
emitWelcome(s) ==
    notify(runWelcome([record(s, "WelcomeEvent") EXCEPT !.welcomeListeners = 0],
                      s.welcomeListeners), "WelcomeEvent")

\* Reply.handle and the continuations of the promise it settles.  The reply
\* promise of a call still spooled is settled with nobody racing it yet.
handleReply(s, id, ok) ==
    IF s.req[id].status = "spooled"
    THEN [s EXCEPT !.req[id].reply = IF ok THEN "ok" ELSE "error"]
    ELSE IF s.req[id].status # "awaiting" THEN s
    ELSE IF ok
    THEN LET r == settle(s, id, "resolved")
         IN  IF s.req[id].kind = "reauth" THEN authSucceeded(r) ELSE r
    ELSE LET r == settle(s, id, "rejected")
         IN  IF s.req[id].kind = "reauth" THEN authFailed(r) ELSE r

\* A reply identifier that names a member of Object.prototype ("constructor",
\* "__proto__", "toString"): this.replies is a plain object, the lookup
\* finds the inherited member, and reply.handle is not a function: a
\* TypeError is thrown out of parsePacket with nothing emitted.
ProtoId == -1

\* Inbound frames: f.kind is "binary", "malformed" (not JSON), "null" (the
\* JSON text null, whose type tag cannot be read: a TypeError is thrown),
\* "unknown" (an unrecognised type tag), "reply" (f.id, f.ok) or "event"
\* (f.event).
parsePacket(s, f) ==
    IF f.kind = "binary" THEN emit(s, "error:MessageParserError")
    ELSE IF f.kind = "malformed" THEN emit(s, "error:MessageParserError")
    ELSE LET d == emitDebug(s)
         IN  IF f.kind = "null" THEN d
             ELSE IF f.kind = "reply"
             THEN IF f.id = ProtoId THEN d
                  ELSE IF f.id \in d.replies
                  THEN handleReply([d EXCEPT !.replies = @ \ {f.id}], f.id, f.ok)
                  ELSE emit(d, "error:NoMethodFound")
             ELSE IF f.kind = "event"
             THEN IF f.event = "WelcomeEvent" THEN emitWelcome(d)
                  ELSE IF f.event = "close" THEN emitClose(d)
                  ELSE IF f.event = "authResult" THEN emitAuthResult(d)
                  ELSE emit(d, f.event)
             ELSE emit(d, "error:MessageParserError")

\* auth()
auth(s) ==
    LET a == [s EXCEPT !.authPacket = TRUE]
    IN  IF isConnected(a) THEN call(a, "auth", "call", FALSE, FALSE)
        ELSE [a EXCEPT !.authWaiters = @ + 1]

\* The call the application's listener makes.
appCall(s, c) ==
    CASE c = "boot" -> boot(s)
      [] c = "close" -> close(s)
      [] c = "send" -> rawSend(s, "msg", FALSE)
      [] c = "call" -> call(s, "whois", "call", FALSE, FALSE)
      [] c = "auth" -> auth(s)
      [] OTHER -> s

\* once(): the listener is removed, then called.
notify(s, name) ==
    IF s.appListener.on = name
    THEN appCall([s EXCEPT !.appListener = NoListener], s.appListener.calls)
    ELSE s

\* ping(): nothing when not connected (the TimeoutError is swallowed by the
\* caller); else the race of the pong against pingTimeout starts on the
\* current transport, whatever its readyState, before the ping is written.
ping(s) ==
    LET c == [s EXCEPT !.pingArmed = FALSE]
    IN  IF ~isConnected(c) THEN c
        ELSE [c EXCEPT !.probes[c.socket] = @ + 1]

\* A pong of transport t: every probe waiting on it registered its own
\* once('pong') listener, so all of them win their race: resetPingTimeout.
probeAnswered(s, t) == resetPingTimeout([s EXCEPT !.probes[t] = 0])

\* The probe's race is won by the timeout: 'error', this.socket.close().
probeTimedOut(s, t) ==
    LET e == emit([s EXCEPT !.probes[t] = @ - 1], "error:TimeoutError")
    IN  IF errorReturns(e) THEN wsClose(e, e.socket) ELSE e

\* The timeout of call() rejecting the caller but keeping the reply entry.
callTimedOutKeepsEntry(s, id) ==
    LET r == settle(s, id, "timeout")
    IN  IF s.req[id].kind = "reauth" THEN authFailed(r) ELSE r

\* The timeout of call() wins the race: the reply entry is deleted and the
\* caller is rejected; for the re-auth call the catch of unSpool runs.
callTimedOut(s, id) ==
    LET r == settle([s EXCEPT !.replies = @ \ {id}], id, "timeout")
    IN  IF s.req[id].kind = "reauth" THEN authFailed(r) ELSE r

\* The transport's 'error' listener.
errorListener(s, t) ==
    IF s.state = Closing THEN s
    ELSE LET e == emit(s, "error:ws")
         IN  IF errorReturns(e) THEN wsClose(e, t) ELSE e

\* What the application's listener may still create: a transport, a request.
ReserveWs(s) == IF s.appListener.calls = "boot" THEN 1 ELSE 0
ReserveReq(s) == IF s.appListener.calls \in {"send", "call", "auth"} THEN 1 ELSE 0

\* Room for what the close listener may create.
CloseHandlerFits(s) ==
    /\ s.state = Refreshing => s.wsCount + ReserveWs(s) < MaxWs
    /\ (s.state \notin {Refreshing, Closing} /\ s.autoReconnect)
          => s.leakedTimers + (IF s.reconnectLive THEN 1 ELSE 0) < MaxTimers

----------------------------------------------------------------------------
Init ==
    /\ state = Idle
    /\ socket = 0
    /\ wsStatus = [t \in WsIds |-> "none"]
    /\ wsWired = [t \in WsIds |-> FALSE]
    /\ wsCount = 0
    /\ endpointsLength \in 0..NumEndpoints
    /\ endpointOffset \in 0..(IF endpointsLength = 0 THEN 0 ELSE endpointsLength - 1)
    /\ autoReconnect \in BOOLEAN
    /\ appErrorListener \in BOOLEAN
    /\ appListener \in AppListeners
    /\ sendPacketsPending = 0
    /\ authPacket = FALSE
    /\ queue = <<>>
    /\ replies = {}
    /\ req = [i \in ReqIds |-> NoReq]
    /\ reqCount = 0
    /\ wire = [t \in WsIds |-> <<>>]
    /\ welcomeListeners = 0
    /\ authWaiters = 0
    /\ pingArmed = FALSE
    /\ probes = [t \in WsIds |-> 0]
    /\ reconnectLive = FALSE
    /\ leakedTimers = 0
    /\ emitted = <<>>
    /\ policyLog = <<>>

\* No continuation of the class is waiting behind the application's: a
\* timer or a transport event is dispatched only then.
Quiescent == sendPacketsPending = 0

\* sendPackets runs as the continuation that follows 'authResult'.
SendPackets ==
    /\ sendPacketsPending > 0
    /\ Commit(sendPackets([Cur EXCEPT !.sendPacketsPending = @ - 1]))

\* The user calls setOptions() with the other value of autoReconnect.
SetOptions ==
    /\ state \in SocketState
    /\ Commit(setOptions(Cur, ~autoReconnect))

\* The user calls setEndpoints() with a list of the given length; random is
\* the offset drawn.
SetEndpoints(length, random) ==
    /\ random \in 0..(IF length = 0 THEN 0 ELSE length - 1)
    /\ Commit(setEndpoints(Cur, length, random))

\* The user calls getAddress().
GetAddress ==
    /\ state \in SocketState
    /\ Commit(getAddress(Cur))

\* The user calls boot().
Boot ==
    /\ wsCount + ReserveWs(Cur) < MaxWs
    /\ Commit(boot(Cur))

\* The user calls close().
Close ==
    /\ state \in SocketState
    /\ Commit(close(Cur))

\* The transport finishes its opening handshake.
WsOpen(t) ==
    /\ Quiescent
    /\ wsStatus[t] = "connecting"
    /\ LET o == [Cur EXCEPT !.wsStatus[t] = "open"]
       IN  Commit(IF wsWired[t] /\ socket = t THEN emit(o, "open") ELSE o)

\* The transport's close event: the listener boot() attached re-emits it as
\* 'close' on the instance, where the constructor's listener handles it.
WsClose(t) ==
    /\ Quiescent
    /\ wsStatus[t] \in {"connecting", "open", "closing", "aborting"}
    /\ LET c == [Cur EXCEPT !.wsStatus[t] = "closed", !.wire[t] = <<>>]
           handled == wsWired[t] /\ socket = t
       IN  /\ handled => CloseHandlerFits(c)
           /\ Commit(IF handled THEN emitClose(c) ELSE c)

\* A reconnect timer expires.
ReconnectTimerFire ==
    /\ Quiescent
    /\ wsCount + ReserveWs(Cur) < MaxWs
    /\ \E live \in BOOLEAN :
          /\ IF live THEN reconnectLive ELSE leakedTimers > 0
          /\ LET s == IF live THEN [Cur EXCEPT !.reconnectLive = FALSE]
                      ELSE [Cur EXCEPT !.leakedTimers = @ - 1]
             IN  Commit(boot(s))

\* An idle timer set by resetPingTimeout expires.
PingTimerFire ==
    /\ Quiescent
    /\ pingArmed
    /\ state = Connected => probes[socket] < MaxProbes
    /\ Commit(ping(Cur))

\* The pong of a probe arrives before its timeout.
Pong(t) ==
    /\ Quiescent
    /\ probes[t] > 0
    /\ wsStatus[t] \in {"open", "closing"}
    /\ Commit(probeAnswered(Cur, t))

\* The timeout of a probe expires before its pong.
ProbeTimeout(t) ==
    /\ Quiescent
    /\ probes[t] > 0
    /\ Commit(probeTimedOut(Cur, t))

\* The transport reports an error.
WsError(t) ==
    /\ Quiescent
    /\ wsWired[t]
    /\ wsStatus[t] \in {"connecting", "open"}
    /\ Commit(IF socket = t THEN errorListener(Cur, t) ELSE Cur)

\* Room for what a frame's handlers may create.
FrameFits(s, f) ==
    LET d == emitDebug(s)
    IN  /\ (f.kind = "event" /\ f.event = "WelcomeEvent"
                /\ (d.authPacket \/ d.appListener.calls = "auth"))
              => d.reqCount + d.welcomeListeners + ReserveReq(d) <= MaxReq
        /\ (f.kind = "event" /\ f.event = "close") => CloseHandlerFits(d)

\* The transport's 'message' listener.
WsMessage(t, f) ==
    /\ Quiescent
    /\ wsStatus[t] \in {"open", "closing"}
    /\ LET handled == wsWired[t] /\ socket = t
       IN  /\ handled => FrameFits(Cur, f)
           /\ Commit(IF handled THEN parsePacket(resetPingTimeout(Cur), f) ELSE Cur)

\* The user calls parsePacket() with the text of a frame.
ParsePacket(f) ==
    /\ FrameFits(Cur, f)
    /\ Commit(parsePacket(Cur, f))

\* The user calls send() with a payload of the given method, with or without
\* options.force.
Send(m, force) ==
    /\ reqCount + ReserveReq(Cur) < MaxReq
    /\ Commit(rawSend(Cur, m, force))

\* The user calls call(), with or without options.force.
Call(m, noReply, force) ==
    /\ reqCount + ReserveReq(Cur) < MaxReq
    /\ Commit(call(Cur, m, "call", noReply, force))

\* The user calls auth().
Auth ==
    /\ IF state = Connected THEN reqCount + ReserveReq(Cur) < MaxReq
       ELSE authWaiters < MaxAuthWaiters
    /\ Commit(auth(Cur))

\* The timeout of a call expires before its reply.
CallTimeout(id) ==
    /\ Quiescent
    /\ req[id].status = "awaiting"
    /\ Commit(callTimedOut(Cur, id))

\* The event frames of the protocol and one frame of each rejected kind.
EventFrames ==
    [kind : {"event"}, event : {"WelcomeEvent", "close", "authResult", "ChatMessage"}]
JunkFrames == [kind : {"binary", "malformed", "null", "unknown"}]
ReplyFrames(t) ==
    {[kind |-> "reply", id |-> wire[t][i], ok |-> ok] :
        i \in 1..Len(wire[t]), ok \in BOOLEAN}

\* The connection lifecycle: boot, close, setOptions, the transport's events,
\* server events and the reconnect timer.  No request is issued.
NextLifecycle ==
    \/ Boot
    \/ Close
    \/ SetOptions
    \/ \E t \in WsIds : WsOpen(t)
    \/ \E t \in WsIds : \E f \in EventFrames : WsMessage(t, f)
    \/ \E t \in WsIds : WsClose(t)
    \/ \E t \in WsIds : WsError(t)
    \/ ReconnectTimerFire

\* The endpoint list and the offset play no part outside the rotation
\* specification: the longest list, at its first endpoint.
InitEndpoints == Init /\ endpointsLength = NumEndpoints /\ endpointOffset = 0

\* No listener of the application calls back.
InitRequests == InitEndpoints /\ appListener = NoListener

\* Where the only errors emitted are the last statement of their handler
\* (parsePacket's), a missing 'error' listener changes nothing the instance
\* keeps: the application listens.
InitListening == InitRequests /\ appErrorListener

\* The application may boot or close from a listener.
LifecycleListeners ==
    {NoListener} \cup {Listener(on, calls) : on \in {"ready", "debug"},
                                             calls \in {"boot", "close"}}
InitLifecycle == InitEndpoints /\ appListener \in LifecycleListeners

SpecLifecycle == InitLifecycle /\ [][NextLifecycle]_vars

\* Endpoint rotation: any endpoint list and offset, setEndpoints() and
\* getAddress() called by the user, and the boot()s of the user and of the
\* reconnect timer.
NextRotation ==
    \/ Boot
    \/ GetAddress
    \/ \E length \in 0..NumEndpoints : \E random \in 0..NumEndpoints :
          SetEndpoints(length, random)
    \/ \E t \in WsIds : WsClose(t)
    \/ ReconnectTimerFire

\* Nothing a listener of the application waits for is emitted here.
InitRotation == Init /\ appListener = NoListener

SpecRotation == InitRotation /\ [][NextRotation]_vars

\* The user boots when no transport is live.
Start ==
    /\ IF socket = 0 THEN TRUE ELSE wsStatus[socket] = "closed"
    /\ Boot

\* The handshake frame and the replies the server owes on transport t.
ServerFrames(t) == {[kind |-> "event", event |-> "WelcomeEvent"]} \cup ReplyFrames(t)

\* Spooling: send() and auth() against a connection that drops and comes back;
\* the server answers the handshake and the requests it received.  No call
\* times out.
NextSpool ==
    \/ Start
    \/ Auth
    \/ SendPackets
    \/ \E m \in Methods : Send(m, FALSE)
    \/ \E t \in WsIds : WsOpen(t)
    \/ \E t \in WsIds : \E f \in ServerFrames(t) : WsMessage(t, f)
    \/ \E t \in WsIds : WsClose(t)
    \/ ReconnectTimerFire

\* The application may send from a listener: once the connection is announced
\* usable, or when a frame is traced.
SpoolListeners == {NoListener, Listener("ready", "send"), Listener("debug", "send")}
InitSpool == InitEndpoints /\ appListener \in SpoolListeners

SpecSpool == InitSpool /\ [][NextSpool]_vars

\* Request/reply correlation: call(), replies and call timeouts, against a connection that drops and comes back.
NextCalls ==
    \/ Start
    \/ \E m \in Methods : Call(m, FALSE, FALSE)
    \/ \E t \in WsIds : WsOpen(t)
    \/ \E t \in WsIds : \E f \in ServerFrames(t) : WsMessage(t, f)
    \/ \E t \in WsIds : WsClose(t)
    \/ ReconnectTimerFire
    \/ \E id \in ReqIds : CallTimeout(id)

\* The application may call from a listener.
CallsListeners == {NoListener, Listener("ready", "call"), Listener("debug", "call")}
InitCalls == InitEndpoints /\ appErrorListener /\ appListener \in CallsListeners

SpecCalls == InitCalls /\ [][NextCalls]_vars

\* The frames of the keepalive specification: the handshake, an ordinary
\* event and one frame of each rejected kind.
KeepaliveFrames ==
    [kind : {"event"}, event : {"WelcomeEvent", "ChatMessage"}] \cup JunkFrames

\* Keepalive: the idle timer, the probe and its race, against a connection
\* that drops, is re-booted by the user at any time and comes back.
NextKeepalive ==
    \/ Boot
    \/ SetOptions
    \/ \E t \in WsIds : WsOpen(t)
    \/ \E t \in WsIds : \E f \in KeepaliveFrames : WsMessage(t, f)
    \/ \E t \in WsIds : WsClose(t)
    \/ \E t \in WsIds : WsError(t)
    \/ ReconnectTimerFire
    \/ PingTimerFire
    \/ \E t \in WsIds : Pong(t)
    \/ \E t \in WsIds : ProbeTimeout(t)

SpecKeepalive == InitRequests /\ [][NextKeepalive]_vars

\* The frames of the authentication specification: the handshake, the replies
\* the server owes on transport t and an event named 'authResult'.
AuthFrames(t) == ServerFrames(t) \cup {[kind |-> "event", event |-> "authResult"]}

\* Authentication: auth() and the automatic re-auth of the handshake, against
\* a connection that drops and comes back.
NextAuth ==
    \/ Start
    \/ Auth
    \/ SendPackets
    \/ \E t \in WsIds : WsOpen(t)
    \/ \E t \in WsIds : \E f \in AuthFrames(t) : WsMessage(t, f)
    \/ \E t \in WsIds : WsClose(t)
    \/ ReconnectTimerFire
    \/ \E id \in ReqIds : CallTimeout(id)

\* The application may authenticate from a listener, or call once the
\* connection is announced usable.
AuthListeners ==
    {NoListener, Listener("ready", "auth"), Listener("debug", "auth"),
     Listener("ready", "call")}
InitAuth == InitEndpoints /\ appListener \in AuthListeners

SpecAuth == InitAuth /\ [][NextAuth]_vars

\* The promise of auth(): as the authentication specification, with no call
\* timing out and the application authenticating from its listener.
NextAuthHandle ==
    \/ Start
    \/ Auth
    \/ SendPackets
    \/ \E t \in WsIds : WsOpen(t)
    \/ \E t \in WsIds : \E f \in AuthFrames(t) : WsMessage(t, f)
    \/ \E t \in WsIds : WsClose(t)
    \/ ReconnectTimerFire

InitAuthHandle ==
    InitEndpoints /\ appListener \in {NoListener, Listener("ready", "auth"),
                                      Listener("debug", "auth")}

SpecAuthHandle == InitAuthHandle /\ [][NextAuthHandle]_vars

\* The user's first boot().
FirstBoot ==
    /\ wsCount = 0
    /\ Boot

\* The handshake and an ordinary event.
HandshakeFrames == [kind : {"event"}, event : {"WelcomeEvent", "ChatMessage"}]

\* Reconnection: the user boots once and may close; every later transport is
\* created by a reconnect timer.
NextReconnect ==
    \/ FirstBoot
    \/ Close
    \/ SetOptions
    \/ \E t \in WsIds : WsOpen(t)
    \/ \E t \in WsIds : \E f \in HandshakeFrames : WsMessage(t, f)
    \/ \E t \in WsIds : WsClose(t)
    \/ \E t \in WsIds : WsError(t)
    \/ ReconnectTimerFire

SpecReconnect == Init /\ [][NextReconnect]_vars

\* Raw send(): payloads of the ordinary methods and of method 'auth', with and
\* without options.force, from the user and from a listener, against
\* a connection that drops and comes back; the server sends the handshake.
NextRawSend ==
    \/ Start
    \/ \E m \in Methods \cup {"auth"} : \E force \in BOOLEAN : Send(m, force)
    \/ \E t \in WsIds : WsOpen(t)
    \/ \E t \in WsIds : WsMessage(t, [kind |-> "event", event |-> "WelcomeEvent"])
    \/ \E t \in WsIds : WsClose(t)
    \/ ReconnectTimerFire

InitRawSend == InitEndpoints /\ appErrorListener /\ appListener \in SpoolListeners

SpecRawSend == InitRawSend /\ [][NextRawSend]_vars

\* Teardown: the user's close() and boot(), called at any time (between the
\* 'authResult' of a re-auth and sendPackets too), against a connection with
\* saved credentials whose re-auth may still be in flight.
NextTeardown ==
    \/ Boot
    \/ Close
    \/ Auth
    \/ SendPackets
    \/ \E t \in WsIds : WsOpen(t)
    \/ \E t \in WsIds : \E f \in AuthFrames(t) : WsMessage(t, f)
    \/ \E t \in WsIds : WsClose(t)
    \/ ReconnectTimerFire
    \/ \E id \in ReqIds : CallTimeout(id)

SpecTeardown == InitRequests /\ [][NextTeardown]_vars

\* The pending-call map: call() with and without the noReply and force options, replies
\* and call timeouts, against a connection that drops and comes back.
NextCallMap ==
    \/ Start
    \/ \E m \in Methods : \E noReply, force \in BOOLEAN : Call(m, noReply, force)
    \/ \E t \in WsIds : WsOpen(t)
    \/ \E t \in WsIds : \E f \in ServerFrames(t) : WsMessage(t, f)
    \/ \E t \in WsIds : WsClose(t)
    \/ ReconnectTimerFire
    \/ \E id \in ReqIds : CallTimeout(id)

SpecCallMap == InitListening /\ [][NextCallMap]_vars

\* Reply frames that name a call still in the spool queue.
SpooledReplyFrames ==
    {[kind |-> "reply", id |-> queue[i].id, ok |-> ok] :
        i \in 1..Len(queue), ok \in BOOLEAN}

\* Reply frames whose identifier names a member of Object.prototype.
ProtoReplyFrames == {[kind |-> "reply", id |-> ProtoId, ok |-> ok] : ok \in BOOLEAN}

\* Frame handling: calls in flight and spooled, with the server sending the
\* handshake, replies and frames of the rejected kinds, and the user handing
\* parsePacket() frames of the rejected kinds and replies to spooled calls.
\* No call times out.
NextFrames ==
    \/ Start
    \/ Call("msg", FALSE, FALSE)
    \/ \E f \in JunkFrames \cup SpooledReplyFrames \cup ProtoReplyFrames : ParsePacket(f)
    \/ \E t \in WsIds : WsOpen(t)
    \/ \E t \in WsIds :
          \E f \in ServerFrames(t) \cup JunkFrames \cup ProtoReplyFrames : WsMessage(t, f)
    \/ \E t \in WsIds : WsClose(t)
    \/ ReconnectTimerFire

SpecFrames == InitRequests /\ [][NextFrames]_vars
----------------------------------------------------------------------------
\* Vocabulary of the properties.

Emits(name) == \E i \in 1..Len(emitted) : emitted[i] = name

\* Pending reconnect timers, referenced by this.reconnectTimeout or not.
PendingReconnects == leakedTimers + (IF reconnectLive THEN 1 ELSE 0)

\* This step is the close event of the current transport, delivered to the
\* 'close' listener boot() attached to it.
CurrentTransportCloses ==
    IF socket = 0 THEN FALSE
    ELSE /\ wsWired[socket]
         /\ wsStatus[socket] # "closed"
         /\ wsStatus'[socket] = "closed"

\* This step is the close event of a transport close() was called on.
ClosingTransportCloses ==
    \E t \in WsIds : wsStatus[t] \in {"closing", "aborting"} /\ wsStatus'[t] = "closed"

----------------------------------------------------------------------------
\* C1: once close() has put the state in Closing it stays Closing until the
\* close event of that transport; that event moves it to Closed, emits
\* 'closed' and schedules no reconnect, whatever frames arrive in between.
\* (A step that creates a transport is boot(), which C3 is about.)
C1_ClosingStep ==
    (state = Closing /\ wsCount' = wsCount) =>
        IF wsStatus[socket] # "closed" /\ wsStatus'[socket] = "closed"
        THEN /\ state' = Closed
             /\ Emits("closed")'
             /\ PendingReconnects' = 0
        ELSE state' = Closing

\* C1: every step taken in Closing keeps Closing, or is the transport's close event and ends in Closed with 'closed' emitted and no reconnect pending.
C1_ClosingUntilTransportClosed == [][C1_ClosingStep]_vars

\* C3: while the state is Closing no step (boot() included) creates a
\* transport, replaces the transport handle or advances the rotation offset.
C3_ClosingStep ==
    state = Closing =>
        /\ wsCount' = wsCount
        /\ socket' = socket
        /\ endpointOffset' = endpointOffset

\* C3: no step taken in Closing creates a transport, replaces the handle or advances the offset.
C3_BootWhileClosingDefers == [][C3_ClosingStep]_vars

\* C4: when the state is Refreshing and the close event of the closing
\* transport occurs, boot() runs and leaves the state Connecting on a new
\* transport with its listeners attached.
C4_RefreshingStep ==
    (state = Refreshing /\ ClosingTransportCloses) =>
        /\ state' = Connecting
        /\ wsCount' = wsCount + 1
        /\ wsWired'[socket']

\* C4: the close event of the closing transport in Refreshing leaves the state Connecting on a new, wired transport.
C4_DeferredConnectResumed == [][C4_RefreshingStep]_vars

\* C5: with autoReconnect, the close of the current transport in Connecting,
\* Connected or Reconnecting sets Reconnecting, calls policy.next() once,
\* emits 'reconnecting' (once, behind the 'close' it handles) and adds
\* exactly one pending boot(); a pending boot()
\* goes away only by running (a transport is created) or on the way to Closed.
C5_CloseStep ==
    (autoReconnect /\ state \in {Connecting, Connected, Reconnecting}
        /\ CurrentTransportCloses) =>
        /\ state' = Reconnecting
        /\ policyLog' = <<"next">>
        /\ emitted' = <<"close", "reconnecting">>
        /\ reconnectLive'
        /\ PendingReconnects' = PendingReconnects + 1
        /\ wsCount' = wsCount

C5_TimerStep ==
    PendingReconnects' < PendingReconnects =>
        \/ /\ PendingReconnects' = PendingReconnects - 1
           /\ wsCount' = wsCount + 1
           /\ socket' = wsCount'
        \/ state' = Closed

\* C5: every close of the current transport schedules exactly one boot(), and a scheduled boot() only goes away by running or on the way to Closed.
C5_ReconnectScheduledOnce == [][C5_CloseStep /\ C5_TimerStep]_vars

\* The current transport closed in Reconnecting (a server 'close' event had
\* already scheduled a boot) and a second boot is now pending beside the first.
C5_Witness ==
    /\ autoReconnect
    /\ state = Reconnecting
    /\ emitted = <<"close", "reconnecting">>
    /\ policyLog = <<"next">>
    /\ wsStatus[socket] = "closed"
    /\ PendingReconnects = 2

\* C6: without autoReconnect, the close of the current transport in
\* Connecting, Connected or Reconnecting leaves the state Idle and schedules
\* nothing.
C6_CloseStep ==
    (~autoReconnect /\ state \in {Connecting, Connected, Reconnecting}
        /\ CurrentTransportCloses) =>
        /\ state' = Idle
        /\ PendingReconnects' = PendingReconnects

\* C6: without autoReconnect the close of the current transport leaves the state Idle.
C6_IdleAfterClose == [][C6_CloseStep]_vars

\* C7: close() before any transport was created (the only step that neither
\* finds nor creates a transport) moves the state to Closed and emits 'closed'.
C7_CloseStep ==
    (wsCount = 0 /\ wsCount' = 0) =>
        /\ state' = Closed
        /\ Emits("closed")'

\* C7: close() with no transport ever created ends in Closed and emits 'closed'.
C7_CloseWithoutTransport == [][C7_CloseStep]_vars
----------------------------------------------------------------------------
\* The spool queue and the wire.

QueueIds == {queue[i].id : i \in 1..Len(queue)}
QueueIdSeq == [i \in 1..Len(queue) |-> queue[i].id]
OnWire(id) == IF socket = 0 THEN FALSE ELSE \E i \in 1..Len(wire[socket]) : wire[socket][i] = id

\* The notification a is emitted before the notification b.
EmitsInOrder(a, b) ==
    \E i, j \in 1..Len(emitted) : i < j /\ emitted[i] = a /\ emitted[j] = b

\* This step drains a non-empty spool queue.
Flushed == queue # <<>> /\ queue' = <<>>

\* The queued requests a send of this step, made by a listener before the
\* drain, took the place of: their callers still wait after the drain.
Overwritten == {id \in QueueIds : req'[id].status = "spooled"}

\* The requests issued in this step.
NewRequests == (reqCount + 1)..reqCount'

\* What the drain writes: every queued request, in the queue's order, when the
\* transport is open (a request the application sends from a listener while
\* the drain runs is written among them).
FlushWrites ==
    LET written == SubSeq(wire'[socket], Len(wire[socket]) + 1, Len(wire'[socket]))
        drained == SelectSeq(written, LAMBDA id : id \in QueueIds)
    IN  drained = IF wsStatus[socket] = "open"
                  THEN SelectSeq(QueueIdSeq, LAMBDA id : id \notin Overwritten)
                  ELSE <<>>

\* C2: no request handed to send() while not connected is lost: a request
\* whose caller still waits for the flush is still in the spool queue.
C2_NoRequestLost ==
    \A id \in ReqIds : req[id].status = "spooled" => id \in QueueIds

\* This step is the success of a re-auth request written to the current
\* transport, and emits 'authResult'.
ReauthSucceeds ==
    /\ \E id \in ReqIds :
          /\ req[id].kind = "reauth"
          /\ req[id].status = "awaiting"
          /\ req'[id].status = "resolved"
          /\ OnWire(id)
    /\ Emits("authResult")'

\* C8: the spool leaves the queue only by a complete drain, and 'connected'
\* is emitted only with the queue empty.  With saved credentials the
\* handshake writes only re-auth requests and drains nothing; the drain
\* follows the success of a re-auth request written to this transport and
\* its 'authResult': in the same step, or as the continuation that success
\* left pending (a promise of auth() was waiting); it writes the queue in
\* order.  Without saved credentials the drain runs in the handshake step.
C8_Step ==
    /\ Emits("connected")' => queue' = <<>>
    /\ Len(queue') < Len(queue) => queue' = <<>>
    /\ sendPacketsPending' > sendPacketsPending =>
          /\ ReauthSucceeds
          /\ queue' = queue
          /\ wire' = wire
    /\ (Flushed /\ authPacket) =>
          /\ \/ ReauthSucceeds /\ EmitsInOrder("authResult", "connected")'
             \/ SendPackets /\ emitted' = <<"connected">>
          /\ ~Emits("ready")'
          /\ FlushWrites
    /\ (Flushed /\ ~authPacket) =>
          /\ EmitsInOrder("ready", "connected")'
          /\ FlushWrites
    /\ (Emits("ready")' /\ authPacket) =>
          /\ queue' = queue
          /\ \A i \in (Len(wire[socket]) + 1)..Len(wire'[socket]) :
                req'[wire'[socket][i]].kind = "reauth"

\* C8: every step orders re-auth, 'authResult', the drain of the spool and 'connected' as C8_Step says.
C8_ReauthThenSpoolInOrder == [][C8_Step]_vars

\* C9: the spool queue holds at most one entry per method, the entry of the
\* latest send of that method; a drain resolves exactly the queued requests,
\* writes each once, and leaves the callers of overwritten requests waiting.
\* A send the application makes from a listener in the step of the drain,
\* before the drain starts, overwrites like any other: the drain then
\* resolves and writes that request in place of the queued one.
C9_Collapsed ==
    /\ \A i, j \in 1..Len(queue) : queue[i].method = queue[j].method => i = j
    /\ \A i \in 1..Len(queue) :
          /\ req[queue[i].id].status = "spooled"
          /\ req[queue[i].id].method = queue[i].method
          /\ \A id \in ReqIds :
                (req[id].status = "spooled" /\ req[id].method = queue[i].method)
                    => id <= queue[i].id

C9_Step ==
    /\ C9_Collapsed'
    /\ Flushed =>
          /\ \A id \in QueueIds \ Overwritten : req'[id].status = "resolved"
          /\ appListener' = appListener => Overwritten = {}
          /\ Cardinality(Overwritten)
                <= Cardinality({n \in NewRequests :
                                    /\ req'[n].status = "resolved"
                                    /\ wsStatus[socket] = "open" => OnWire(n)'})
          /\ \A id \in ReqIds \ QueueIds :
                req[id].status = "spooled" => req'[id] = req[id]
          /\ FlushWrites

\* C9: after every step the spool is collapsed per method, and every drain resolves and writes exactly the queued requests.
C9_SpoolCollapse == [][C9_Step]_vars

\* Two sends of one method were spooled; the drain wrote and resolved the
\* second only.
C9_Witness ==
    /\ queue = <<>>
    /\ Emits("connected")
    /\ \E a, b \in ReqIds :
          /\ a < b
          /\ req[a].status = "spooled"
          /\ req[b].status = "resolved"
          /\ OnWire(b)
          /\ ~OnWire(a)
          /\ Len(wire[socket]) = 1

\* C10: a call waiting for its reply has a pending entry; once its timeout
\* has won the race the call has failed with the timeout and the entry is
\* gone, so that a reply for that identifier only emits NoMethodFound: it
\* settles no caller and changes neither the state, the queue nor the map.
C10_TimeoutThenNoMethodFound ==
    \A id \in ReqIds :
        /\ req[id].status = "awaiting" => id \in replies
        /\ req[id].status = "timeout" =>
              /\ id \notin replies
              /\ \A ok \in BOOLEAN :
                    LET r == parsePacket(resetPingTimeout(Cur),
                                         [kind |-> "reply", id |-> id, ok |-> ok])
                    IN  /\ r.emitted = <<"error:NoMethodFound">>
                        /\ r.state = state
                        /\ r.req = req
                        /\ r.replies = replies
                        /\ r.queue = queue
                        /\ r.socket = socket
                        /\ r.wsStatus = wsStatus

\* The only call ever made timed out, and its reply arrived afterwards.
C10_Witness ==
    /\ reqCount = 1
    /\ req[1].status = "timeout"
    /\ OnWire(1)
    /\ state = Connected
    /\ emitted = <<"error:NoMethodFound">>
----------------------------------------------------------------------------
\* Keepalive.

\* This step is a frame delivered to the 'message' listener of the current
\* transport.
CurrentTransportFrame ==
    \E f \in KeepaliveFrames : WsMessage(socket, f)

\* C11: keepalive while Connected on the current transport.  A frame re-arms
\* the idle timer.  The expiry of the idle timer on an open transport clears
\* the timer and starts exactly one probe.  The pong of a probe re-arms the
\* timer, emits nothing and leaves every transport as it was.  The timeout of
\* a probe on the open transport emits the timeout error and close()s the
\* transport.  The close event of the transport so closed sets Reconnecting
\* with one boot() pending when autoReconnect is set, and schedules nothing
\* when it is not.
C11_Step ==
    state = Connected =>
        /\ CurrentTransportFrame => pingArmed'
        /\ (wsStatus[socket] = "open" /\ PingTimerFire) =>
              /\ probes' = [probes EXCEPT ![socket] = @ + 1]
              /\ ~pingArmed'
              /\ emitted' = <<>>
              /\ state' = Connected
        /\ Pong(socket) =>
              /\ pingArmed'
              /\ wsStatus' = wsStatus
              /\ emitted' = <<>>
              /\ state' = Connected
        /\ (wsStatus[socket] = "open" /\ ProbeTimeout(socket)) =>
              /\ emitted' = <<"error:TimeoutError">>
              /\ wsStatus'[socket] = "closing"
        /\ (wsStatus[socket] = "closing" /\ WsClose(socket)) =>
              IF autoReconnect
              THEN /\ state' = Reconnecting
                   /\ PendingReconnects' = PendingReconnects + 1
              ELSE PendingReconnects' = PendingReconnects

\* C11: every step taken in Connected treats frames, the idle timer, the pong, the probe timeout and the forced close as C11_Step says.
C11_Keepalive == [][C11_Step]_vars
----------------------------------------------------------------------------
\* Authentication.

\* C12: a step in which the re-auth fails emits the authentication failure,
\* leaves the state Closing and neither drains the spool nor writes to a
\* transport; from then on (under SpecSpool only that failure calls close())
\* no reconnect timer runs boot(), and unless the user calls boot() the state
\* stays Closing or Closed and no transport is created.
C12_Step ==
    /\ Emits("error:AuthenticationFailedError")' =>
          /\ state' = Closing
          /\ queue' = queue
          /\ wire' = wire
    /\ state \in {Closing, Closed} =>
          /\ ~ReconnectTimerFire
          /\ ~Start =>
                /\ state' \in {Closing, Closed}
                /\ wsCount' = wsCount

\* C12: a failed re-auth ends in Closed: it drains nothing, and after it no step but the user's boot() leaves Closing/Closed or creates a transport.
C12_ReauthFailureCloses == [][C12_Step]_vars

\* C13: auth() records the credentials.  In Connected it issues one 'auth'
\* call: a pending reply entry, the request written to the open transport,
\* the caller waiting for the reply.  In every other state it writes nothing,
\* spools nothing, issues no request and leaves one more promise waiting for
\* 'authResult'.  A waiting promise is settled only by a step that emits
\* 'authResult', and every such step settles all of them.
C13_Step ==
    /\ Auth =>
          /\ authPacket'
          /\ IF state = Connected
             THEN LET id == reqCount + 1
                  IN  /\ reqCount' = id
                      /\ id \in replies'
                      /\ req'[id] = [method |-> "auth", kind |-> "call",
                                     noReply |-> FALSE, status |-> "awaiting",
                                     reply |-> "none"]
                      /\ wsStatus[socket] = "open" =>
                            wire'[socket] = Append(wire[socket], id)
                      /\ queue' = queue
                      /\ authWaiters' = authWaiters
             ELSE /\ wire' = wire
                  /\ queue' = queue
                  /\ reqCount' = reqCount
                  /\ req' = req
                  /\ replies' = replies
                  /\ emitted' = <<>>
                  /\ state' = state
                  /\ authWaiters' = authWaiters + 1
    /\ authWaiters' < authWaiters => Emits("authResult")'
    /\ Emits("authResult")' => authWaiters' = 0

\* C13: every auth() step and every step that settles a promise of auth() is as C13_Step says.
C13_AuthRecordsAndWaits == [][C13_Step]_vars

\* auth() was called before the handshake; the only request ever issued is the
\* automatic re-auth, its success has just emitted 'authResult' and the
\* promise of auth() is settled; sendPackets is still to run.
C13_Witness ==
    /\ authPacket
    /\ reqCount = 1
    /\ req[1].status = "resolved"
    /\ emitted = <<"authResult">>
    /\ authWaiters = 0
    /\ sendPacketsPending = 1
    /\ state = Connected
----------------------------------------------------------------------------
\* Endpoint rotation.

\* The instance after k calls of getAddress(); the k-th call returns the
\* endpoint at the offset it leaves.
RECURSIVE getAddressTimes(_, _)
getAddressTimes(s, k) ==
    IF k = 0 THEN s ELSE getAddress(getAddressTimes(s, k - 1))

Returned(k) == getAddressTimes(Cur, k).endpointOffset

\* C14: from any reachable state with a non-empty endpoint list of N
\* entries, the offset is in 0..N-1 and every getAddress() call advances it
\* by one modulo N and returns the endpoint there: the first call returns
\* (offset + 1) mod N, any N consecutive calls return every endpoint exactly
\* once, and call k + N returns what call k returned.
C14_RoundRobin ==
    endpointsLength > 0 =>
        /\ endpointOffset \in 0..(endpointsLength - 1)
        /\ Returned(1) = (endpointOffset + 1) % endpointsLength
        /\ \A k \in 1..(2 * endpointsLength) :
              Returned(k) = (Returned(k - 1) + 1) % endpointsLength
        /\ \A j \in 0..endpointsLength :
              {Returned(j + i) : i \in 1..endpointsLength} = 0..(endpointsLength - 1)
        /\ \A k \in 1..endpointsLength :
              Returned(k + endpointsLength) = Returned(k)

\* Two boot()s have left the offset at the last endpoint of the longest list:
\* the next getAddress() wraps to the first.
C14_Witness ==
    /\ wsCount = 2
    /\ endpointsLength = NumEndpoints
    /\ endpointOffset = NumEndpoints - 1
    /\ Returned(1) = 0
----------------------------------------------------------------------------
\* Reconnection.

\* C15: a step that completes a handshake (it emits 'ready') on a transport
\* created by a reconnect timer (under SpecReconnect every transport but the
\* first) emits 'reconnected' before 'ready'; on the first transport it does
\* not emit 'reconnected'.
C15_Step ==
    Emits("ready")' =>
        IF socket > 1
        THEN EmitsInOrder("reconnected", "ready")'
        ELSE ~Emits("reconnected")'

\* C15: every handshake on a reconnect's transport emits 'reconnected' before 'ready', and the first handshake does not emit it.
C15_ReconnectedBeforeReady == [][C15_Step]_vars
----------------------------------------------------------------------------
\* C16: send() of an 'auth' payload while the state is not Connected writes
\* to no transport, leaves the spool queue as it was, emits nothing
\* ('spooled' included) and returns a resolved promise; no entry of the
\* queue ever has method 'auth'.
C16_Step ==
    /\ (state # Connected /\ Send("auth", FALSE)) =>
          /\ wire' = wire
          /\ queue' = queue
          /\ emitted' = <<>>
          /\ req'[reqCount'].status = "resolved"
          /\ state' = state
    /\ \A i \in 1..Len(queue') : queue'[i].method # "auth"

\* C16: every send() of an 'auth' payload while not connected is dropped and resolved, and the spool never holds an 'auth' entry.
C16_AuthNeverSpooled == [][C16_Step]_vars

\* Before the first handshake: the first send() was spooled, the second, of
\* method 'auth', is resolved and the queue holds the first only.
C16_Witness ==
    /\ wsCount = 1
    /\ state = Connecting
    /\ reqCount = 2
    /\ req[1].status = "spooled"
    /\ req[2].status = "resolved"
    /\ QueueIdSeq = <<1>>
    /\ emitted = <<>>
----------------------------------------------------------------------------
\* Superseded transports.

EmitsError ==
    \E i \in 1..Len(emitted) :
        emitted[i] \in {"error:ws", "error:TimeoutError", "error:MessageParserError",
                        "error:NoMethodFound", "error:AuthenticationFailedError"}

\* This step is an event of transport t: its open, a frame, its close, an
\* error, or the pong or the timeout of a probe sent on it.
TransportEvent(t) ==
    \/ WsOpen(t)
    \/ \E f \in KeepaliveFrames : WsMessage(t, f)
    \/ WsClose(t)
    \/ WsError(t)
    \/ Pong(t)
    \/ ProbeTimeout(t)

\* C17: an event of a transport that is no longer the current one changes
\* neither the state nor the pending reconnects, emits no error and leaves
\* the current transport as it was.
C17_Step ==
    \A t \in WsIds :
        (t # socket /\ TransportEvent(t)) =>
            /\ state' = state
            /\ socket' = socket
            /\ PendingReconnects' = PendingReconnects
            /\ ~EmitsError'
            /\ wsStatus'[socket] = wsStatus[socket]

\* C17: every event of a superseded transport is ignored.
C17_StaleEventsIgnored == [][C17_Step]_vars

\* The re-auth call id was sent on an earlier transport: it waits for its
\* reply and is not among the writes of the open current transport.
StaleReauth(id) ==
    /\ req[id].kind = "reauth"
    /\ req[id].status = "awaiting"
    /\ wsStatus[socket] = "open"
    /\ ~OnWire(id)

\* C18: with the client Connected on an open transport and no re-auth of
\* that transport in flight, the timeout of a re-auth call sent on an
\* earlier transport emits no authentication failure, keeps the state and
\* closes no transport.
C18_Step ==
    \A id \in ReqIds :
        (/\ state = Connected
         /\ StaleReauth(id)
         /\ \A other \in ReqIds \ {id} : req[other].kind # "reauth"
         /\ CallTimeout(id)) =>
            /\ ~Emits("error:AuthenticationFailedError")'
            /\ state' = Connected
            /\ wsStatus' = wsStatus

\* C18: the timeout of a re-auth call of an earlier transport leaves the re-authenticated connection alone.
C18_StaleReauthTimeoutIgnored == [][C18_Step]_vars
----------------------------------------------------------------------------
\* Transports and timers.

\* The transports that have opened and have not closed yet.
ActiveTransports == {t \in WsIds : wsStatus[t] \in {"open", "closing"}}

\* C19: at most one transport created by the client is active at any moment.
C19_OneActiveTransport == Cardinality(ActiveTransports) <= 1

\* C20: in Closing and in Closed no reconnect timer is pending.
C20_NoReconnectAfterClose ==
    state \in {Closing, Closed} => PendingReconnects = 0
----------------------------------------------------------------------------
\* C21: a step taken in Closed that is neither boot() nor close() called by
\* the user leaves the state Closed and emits no error.
C21_Step ==
    (state = Closed /\ ~Boot /\ ~Close) =>
        /\ state' = Closed
        /\ ~EmitsError'

\* C21: no timer, call timeout, re-auth failure or transport event moves the state out of Closed or emits an error there.
C21_ClosedIsTerminal == [][C21_Step]_vars
----------------------------------------------------------------------------
\* The handshake.

\* How many times the last step emitted the notification.
EmitCount(name) == Cardinality({i \in 1..Len(emitted) : emitted[i] = name})

\* C22: the WelcomeEvent that ends a pending handshake (the state is
\* Connecting) is handled once: one reconnectionPolicy.reset(), one 'ready',
\* and either one re-auth request (credentials saved) or one drain of the
\* spool with one 'connected'.
C22_Step ==
    (state = Connecting /\ Emits("WelcomeEvent")') =>
        /\ policyLog' = <<"reset">>
        /\ EmitCount("ready")' = 1
        /\ IF authPacket
           THEN /\ reqCount' = reqCount + 1
                /\ EmitCount("connected")' = 0
           ELSE /\ reqCount' = reqCount
                /\ EmitCount("connected")' = 1

\* C22: every WelcomeEvent that ends a handshake is handled exactly once, whatever attempts came before.
C22_WelcomeHandledOnce == [][C22_Step]_vars

\* Something is pending that will close the current transport if the peer
\* stays silent: the idle timer with the state Connected (its expiry sends a
\* probe), or a probe whose timeout is running.
DeathWatchPending ==
    \/ pingArmed /\ state = Connected
    \/ \E t \in WsIds : probes[t] > 0

\* C23: whenever the current transport is open, a silent peer is detected:
\* the idle timer or a probe timeout is pending.
C23_SilentDeathDetected ==
    IF socket = 0 THEN TRUE
    ELSE wsStatus[socket] = "open" => DeathWatchPending

\* The re-auth request of the current transport was written and its reply is
\* still to come.
ReauthInFlight ==
    \E id \in ReqIds :
        /\ req[id].kind = "reauth"
        /\ req[id].status = "awaiting"
        /\ OnWire(id)

\* C24: while the re-auth request of the current transport is in flight, a
\* send() by the user writes nothing to a transport.
C24_Step ==
    ReauthInFlight =>
        \A m \in Methods : Send(m, FALSE) => wire' = wire

\* C24: no request of the user is written to the transport between the handshake and the reply to the re-auth.
C24_NothingAheadOfReauth == [][C24_Step]_vars
----------------------------------------------------------------------------
\* C25: every entry of the pending-call map belongs to a call that expects a
\* reply and whose caller still waits: for the reply, or for the drain of
\* the spool with its request still in the queue.
C25_PendingMapClean ==
    \A id \in replies :
        /\ ~req[id].noReply
        /\ \/ req[id].status = "awaiting"
           \/ req[id].status = "spooled" /\ id \in QueueIds
----------------------------------------------------------------------------
\* Inbound frames.

\* C26: an event frame whose name is not WelcomeEvent is only re-emitted:
\* the step changes neither the state nor the pending reconnects, creates no
\* transport and emits nothing but the event itself.
C26_Step ==
    \A t \in WsIds : \A f \in EventFrames :
        (f.event # "WelcomeEvent" /\ WsMessage(t, f)) =>
            /\ state' = state
            /\ PendingReconnects' = PendingReconnects
            /\ wsCount' = wsCount
            /\ \A i \in 1..Len(emitted') : emitted'[i] = f.event

\* C26: no server event frame other than the handshake changes the state or schedules a reconnect.
C26_EventFramesOnlyReemitted == [][C26_Step]_vars

\* C27: a frame that is binary, is not JSON, is JSON without a type tag to
\* read (null) or has an unknown type tag, delivered to the listener of the
\* current transport, emits exactly one
\* parser error and is dropped: the state, the pending-call map, the spool
\* queue, every caller's promise, the transports and the listeners are as
\* before, and any frame that follows is handled as it would have been
\* without it.
C27_Step ==
    \A f \in JunkFrames :
        (socket # 0 /\ WsMessage(socket, f) /\ wsWired[socket]) =>
            /\ emitted' = <<"error:MessageParserError">>
            /\ state' = state
            /\ replies' = replies
            /\ queue' = queue
            /\ req' = req
            /\ wire' = wire
            /\ wsStatus' = wsStatus
            /\ socket' = socket
            /\ PendingReconnects' = PendingReconnects
            /\ \A g \in ServerFrames(socket) \cup JunkFrames :
                  parsePacket(resetPingTimeout(Cur'), g)
                      = parsePacket(resetPingTimeout(Cur), g)

\* C27: every frame of a rejected kind emits one error and changes nothing else.
C27_JunkFramesDropped == [][C27_Step]_vars
====
